---------------------------- MODULE Spec2Model ----------------------------
(***************************************************************************)
(* A model of cfgparser.CfgParser (src/cfgparser.py): the lazily built     *)
(* category index, the category-aware read operations, the value           *)
(* evaluator and the list splitter.                                        *)
(*                                                                         *)
(* Python strings are modelled as sequences of one-character strings, so   *)
(* that lower(), strip(), count() and split() are computed character by    *)
(* character.  An OrderedDict is a sequence of [k, v] records in insertion *)
(* order.  The stdlib ConfigParser store is a sequence of sections, each   *)
(* with its ordered options.                                               *)
(***************************************************************************)
EXTENDS Integers, Sequences, FiniteSets, TLC

VARIABLES
    sects,            \* the raw store: <<[name, opts]>> in file order
    _categories,      \* self._categories: [none, od]
    res,              \* the last call of the caller and its outcome
    input,            \* the argument of the pure function under check
    literal_lstrip,   \* whether ast.literal_eval drops leading blanks
    threads           \* per-thread position inside a category-aware call

vars == <<sects, _categories, res, input, literal_lstrip, threads>>

---------------------------------------------------------------------------
(* Bounds *)

MaxSections == 3
MaxEvalLen == 3
MaxSplitLen == 5

---------------------------------------------------------------------------
(* Characters and strings *)

Uppers == <<"A","B","C","D","E","F","G","H","I","J","K","L","M",
            "N","O","P","Q","R","S","T","U","V","W","X","Y","Z">>
Lowers == <<"a","b","c","d","e","f","g","h","i","j","k","l","m",
            "n","o","p","q","r","s","t","u","v","w","x","y","z">>

Whitespace == {" ", "\n", "\t", "\r"}

LowerChar(c) ==
    IF \E i \in DOMAIN Uppers : Uppers[i] = c
    THEN Lowers[CHOOSE i \in DOMAIN Uppers : Uppers[i] = c]
    ELSE c

\* str.lower()
lower(s) == [i \in 1..Len(s) |-> LowerChar(s[i])]

RECURSIVE lstrip(_)
lstrip(s) ==
    IF s # <<>> /\ Head(s) \in Whitespace THEN lstrip(Tail(s)) ELSE s

RECURSIVE rstrip(_)
rstrip(s) ==
    IF s # <<>> /\ s[Len(s)] \in Whitespace
    THEN rstrip(SubSeq(s, 1, Len(s) - 1))
    ELSE s

\* str.strip()
strip(s) == rstrip(lstrip(s))

\* str.count(ch) for a one-character ch
count(s, ch) == Cardinality({i \in 1..Len(s) : s[i] = ch})

\* str.split(sep) / re.split("[...]"): the segments between delimiters,
\* always at least one, empty segments kept
RECURSIVE split(_, _)
split(s, delims) ==
    IF s = <<>> THEN << <<>> >>
    ELSE LET rest == split(Tail(s), delims) IN
         IF Head(s) \in delims
         THEN << <<>> >> \o rest
         ELSE << <<Head(s)>> \o Head(rest) >> \o Tail(rest)

\* ConfigParser.optionxform, which CfgParser does not override
optionxform(s) == lower(s)

---------------------------------------------------------------------------
(* OrderedDict *)

OD_has(d, k) == \E i \in 1..Len(d) : d[i].k = k

OD_get(d, k) == d[CHOOSE i \in 1..Len(d) : d[i].k = k].v

\* d[k] = v: an existing key keeps its position, a new key goes last
OD_set(d, k, v) ==
    IF OD_has(d, k)
    THEN [i \in 1..Len(d) |-> IF d[i].k = k THEN [k |-> k, v |-> v] ELSE d[i]]
    ELSE Append(d, [k |-> k, v |-> v])

OD_keys(d) == [i \in 1..Len(d) |-> d[i].k]

---------------------------------------------------------------------------
(* Values and outcomes *)

\* An option value, a default or an evaluated value
StrV(s)  == [t |-> "str",  n |-> 0, s |-> s, l |-> <<>>]
IntV(n)  == [t |-> "int",  n |-> n, s |-> <<>>, l |-> <<>>]
BoolV(b) == [t |-> "bool", n |-> IF b THEN 1 ELSE 0, s |-> <<>>, l |-> <<>>]
NoneV    == [t |-> "none", n |-> 0, s |-> <<>>, l |-> <<>>]
ListV(l) == [t |-> "list", n |-> 0, s |-> <<>>, l |-> l]

\* the module-level sentinel "no default supplied"
_EMPTY == [t |-> "_EMPTY", n |-> 0, s |-> <<>>, l |-> <<>>]

\* category=None
None == <<"<None>">>

Return(v) == [kind |-> "return", exc |-> "", val |-> v]
Raise(e)  == [kind |-> "raise", exc |-> e, val |-> <<>>]

---------------------------------------------------------------------------
(* The configuration document the store is loaded from: the sections of    *)
(* the test file of src/cfgparsertest.py, names shortened.  Option names   *)
(* are stored lower-cased and values stripped, as the tokenizer leaves     *)
(* them.                                                                   *)

Opt(k, v) == [k |-> k, v |-> v]

ConfigFile ==
    << [name |-> <<"s">>,
        opts |-> << Opt(<<"d">>, <<"1", ",", " ", "n", "o">>) >>],
       [name |-> <<"c", ":", "f">>,
        opts |-> << Opt(<<"d">>, <<"n", "o">>) >>],
       [name |-> <<" ", "C", ":", " ", "b", " ">>,
        opts |-> << >>],
       [name |-> <<"C", ":", "f">>,
        opts |-> << Opt(<<"d">>, <<"1">>) >>],
       [name |-> <<"c", ":", "f", ":", "b">>,
        opts |-> << Opt(<<"d">>, <<"n", "o">>) >>],
       [name |-> <<"r", ":", "f">>,
        opts |-> << Opt(<<"d">>, <<"'", "n", "o", "'">>) >>] >>

\* Arguments the caller passes
CategoryArgs == {None, <<"c">>, <<"C">>, <<"c", " ">>, <<"x">>}
SectionArgs  == {<<"f">>, <<"F">>, <<" ", "f">>, <<"b">>, <<"s">>}
OptionArgs   == {<<"d">>, <<"x">>}
DefaultArgs  == {_EMPTY, NoneV, StrV(<<"n", "o">>)}

---------------------------------------------------------------------------
(* The stdlib ConfigParser operations CfgParser delegates to *)

HasSect(S, section) == \E i \in 1..Len(S) : S[i].name = section

SectOpts(S, section) == S[CHOOSE i \in 1..Len(S) : S[i].name = section].opts

\* ConfigParser.sections(self)
ConfigParser_sections(S) == [i \in 1..Len(S) |-> S[i].name]

\* ConfigParser.has_section(self, section)
ConfigParser_has_section(S, section) == Return(HasSect(S, section))

\* ConfigParser.options(self, section)
ConfigParser_options(S, section) ==
    IF ~HasSect(S, section) THEN Raise("NoSectionError")
    ELSE Return(OD_keys(SectOpts(S, section)))

\* ConfigParser.has_option(self, section, option)
ConfigParser_has_option(S, section, option) ==
    IF ~HasSect(S, section) THEN Return(FALSE)
    ELSE Return(OD_has(SectOpts(S, section), optionxform(option)))

\* ConfigParser.items(self, section)
ConfigParser_items(S, section) ==
    IF ~HasSect(S, section) THEN Raise("NoSectionError")
    ELSE Return(SectOpts(S, section))

\* ConfigParser.get(self, section, option, raw=raw, vars=vars); the values
\* hold no "%", so interpolation returns them verbatim
ConfigParser_get(S, section, option) ==
    IF ~HasSect(S, section) THEN Raise("NoSectionError")
    ELSE IF ~OD_has(SectOpts(S, section), optionxform(option))
         THEN Raise("NoOptionError")
         ELSE Return(StrV(OD_get(SectOpts(S, section), optionxform(option))))

---------------------------------------------------------------------------
(* The category index *)

Unbuilt == [none |-> TRUE, od |-> <<>>]
Built(od) == [none |-> FALSE, od |-> od]

\* one iteration of the loop of _parse_categories, mutants first
Register_anycolon(od, fullname) ==
    LET section == strip(optionxform(fullname)) IN
    IF count(section, ":") >= 1
    THEN LET parts == split(section, {":"})
             cat   == strip(parts[1])
             name  == strip(parts[2])
             secs  == IF OD_has(od, cat) THEN OD_get(od, cat) ELSE <<>>
         IN  OD_set(od, cat, OD_set(secs, name, fullname))
    ELSE od

Register(od, fullname) ==
    LET section == strip(optionxform(fullname)) IN
    IF count(section, ":") = 1
    THEN LET parts == split(section, {":"})
             cat   == strip(parts[1])
             name  == strip(parts[2])
             secs  == IF OD_has(od, cat) THEN OD_get(od, cat) ELSE <<>>
         IN  OD_set(od, cat, OD_set(secs, name, fullname))
    ELSE od

RECURSIVE RegisterAll(_, _)
RegisterAll(od, names) ==
    IF names = <<>> THEN od
    ELSE RegisterAll(Register(od, Head(names)), Tail(names))

\* _parse_categories: the index after the call, mutant first
_parse_categories_rebuild(C, S) ==
    Built(RegisterAll(<<>>, ConfigParser_sections(S)))

_parse_categories(C, S) ==
    IF ~C.none THEN C
    ELSE Built(RegisterAll(<<>>, ConfigParser_sections(S)))

\* self._categories[cat][sec]
Index2(C, cat, sec) ==
    IF ~OD_has(C.od, cat) THEN Raise("KeyError")
    ELSE IF ~OD_has(OD_get(C.od, cat), sec) THEN Raise("KeyError")
         ELSE Return(OD_get(OD_get(C.od, cat), sec))

---------------------------------------------------------------------------
(* The value evaluator *)

DigitChars == <<"1", "2", "3", "4", "5", "6", "7", "8", "9">>
IsDigit(c) == \E i \in DOMAIN DigitChars : DigitChars[i] = c
DigitVal(c) == CHOOSE i \in DOMAIN DigitChars : DigitChars[i] = c

RECURSIVE IntOf(_)
IntOf(s) ==
    IF s = <<>> THEN 0
    ELSE IntOf(SubSeq(s, 1, Len(s) - 1)) * 10 + DigitVal(s[Len(s)])

Quotes == {"'", "\""}

\* ast.literal_eval(val) on the strings of this model: a decimal integer
\* without zeros, one quoted string without escapes, None, True or False,
\* with trailing blanks ignored; anything else fails (SyntaxError or
\* ValueError).  Leading blanks are dropped by the interpreters that strip
\* them (literal_lstrip) and are an IndentationError for the others.
\* Adjacent string literals, which need five characters, are not covered.
literal_eval(val) ==
    LET body == rstrip(IF literal_lstrip THEN lstrip(val) ELSE val) IN
    IF body = <<>> \/ Head(body) \in Whitespace THEN Raise("SyntaxError")
    ELSE IF \A i \in 1..Len(body) : IsDigit(body[i])
         THEN Return(IntV(IntOf(body)))
    ELSE IF /\ Len(body) >= 2
            /\ Head(body) \in Quotes
            /\ body[Len(body)] = Head(body)
            /\ \A i \in 2..(Len(body) - 1) :
                   body[i] # Head(body) /\ body[i] # "\\" /\ body[i] # "\n"
         THEN Return(StrV(SubSeq(body, 2, Len(body) - 1)))
    ELSE IF body = <<"N", "o", "n", "e">> THEN Return(NoneV)
    ELSE IF body = <<"T", "r", "u", "e">> THEN Return(BoolV(TRUE))
    ELSE IF body = <<"F", "a", "l", "s", "e">> THEN Return(BoolV(FALSE))
    ELSE Raise("ValueError")

FalseWords == {<<"n", "o">>, <<"f", "a", "l", "s", "e">>, <<"o", "f", "f">>}
TrueWords  == {<<"y", "e", "s">>, <<"t", "r", "u", "e">>, <<"o", "n">>}

\* _evaluate with the keyword test case-sensitive
_evaluate_nolower(val) ==
    LET r == literal_eval(val) IN
    IF r.kind = "return" THEN r.val
    ELSE IF val \in FalseWords THEN BoolV(FALSE)
    ELSE IF val \in TrueWords THEN BoolV(TRUE)
    ELSE StrV(val)

_evaluate(val) ==
    LET r == literal_eval(val) IN
    IF r.kind = "return" THEN r.val
    ELSE IF lower(val) \in FalseWords THEN BoolV(FALSE)
    ELSE IF lower(val) \in TrueWords THEN BoolV(TRUE)
    ELSE StrV(val)

---------------------------------------------------------------------------
(* The list splitter: lines 209-213 of getlist *)

SPLITTER == {",", "\n"}

\* the comprehension without its "if s.strip()" filter
list_items_keepempty(val) ==
    LET parts == split(val, SPLITTER) IN
    [i \in 1..Len(parts) |-> strip(parts[i])]

\* [s.strip() for s in self.SPLITTER.split(val) if s.strip()]
list_items(val) ==
    LET parts == split(val, SPLITTER)
        stripped == [i \in 1..Len(parts) |-> strip(parts[i])]
    IN  SelectSeq(stripped, LAMBDA s : s # <<>>)

split_value(val, evaluate) ==
    LET lst == list_items(val) IN
    IF evaluate
    THEN ListV([i \in 1..Len(lst) |-> _evaluate(lst[i])])
    ELSE ListV([i \in 1..Len(lst) |-> StrV(lst[i])])

---------------------------------------------------------------------------
(* The public methods of CfgParser.  S is the store and C the index as     *)
(* _parse_categories leaves it; each yields the outcome of the call.       *)

\* section(section, category): the section the bound view refers to
section(S, C, section_, category) ==
    IF category = None THEN Return(section_)
    ELSE Index2(C, optionxform(category), section_)

categories(S, C) == Return(OD_keys(C.od))

sections(S, C, category) ==
    IF category = None THEN Return(ConfigParser_sections(S))
    ELSE IF ~OD_has(C.od, optionxform(category)) THEN Raise("KeyError")
         ELSE Return(OD_keys(OD_get(C.od, optionxform(category))))

has_section(S, C, section_, category) ==
    IF category = None THEN ConfigParser_has_section(S, section_)
    ELSE Return(/\ OD_has(C.od, optionxform(category))
                /\ OD_has(OD_get(C.od, optionxform(category)), section_))

options(S, C, section_, category) ==
    IF category = None THEN ConfigParser_options(S, section_)
    ELSE LET r == Index2(C, optionxform(category), optionxform(section_)) IN
         IF r.kind = "raise" THEN r ELSE ConfigParser_options(S, r.val)

has_option(S, C, section_, option, category) ==
    IF category = None THEN ConfigParser_has_option(S, section_, option)
    ELSE LET r == Index2(C, optionxform(category), optionxform(section_)) IN
         IF r.kind = "raise" THEN r
         ELSE ConfigParser_has_option(S, r.val, option)

items(S, C, section_, category) ==
    IF category = None THEN ConfigParser_items(S, section_)
    ELSE LET r == Index2(C, optionxform(category), optionxform(section_)) IN
         IF r.kind = "raise" THEN r ELSE ConfigParser_items(S, r.val)

\* get whose default is evaluated like a value
get_evaldefault(S, C, section_, option, category, evaluate, default) ==
    LET dflt == IF evaluate /\ default.t = "str"
                THEN _evaluate(default.s) ELSE default
        r == IF category = None THEN Return(section_)
             ELSE Index2(C, optionxform(category), optionxform(section_))
    IN  IF r.kind = "raise"
        THEN IF default # _EMPTY THEN Return(dflt) ELSE Raise("TypeError")
        ELSE LET b == ConfigParser_get(S, r.val, option) IN
             IF b.kind = "raise"
             THEN IF b.exc = "NoOptionError" /\ default # _EMPTY
                  THEN Return(dflt) ELSE b
             ELSE IF evaluate THEN Return(_evaluate(b.val.s)) ELSE b

\* get.  "raise configparser.NoSectionError" (line 175) raises the class:
\* Python instantiates it without arguments, NoSectionError.__init__
\* requires the section, and the caller receives that TypeError.
get(S, C, section_, option, category, evaluate, default) ==
    LET r == IF category = None THEN Return(section_)
             ELSE Index2(C, optionxform(category), optionxform(section_))
    IN  IF r.kind = "raise"
        THEN IF default # _EMPTY THEN Return(default) ELSE Raise("TypeError")
        ELSE LET b == ConfigParser_get(S, r.val, option) IN
             IF b.kind = "raise"
             THEN IF b.exc = "NoOptionError" /\ default # _EMPTY
                  THEN Return(default) ELSE b
             ELSE IF evaluate THEN Return(_evaluate(b.val.s)) ELSE b

getlist(S, C, section_, option, evaluate, category, default) ==
    LET g == get(S, C, section_, option, category, FALSE, _EMPTY) IN
    IF g.kind = "raise"
    THEN IF g.exc = "NoOptionError" /\ default # _EMPTY
         THEN Return(default) ELSE g
    ELSE Return(split_value(g.val.s, evaluate))

geteval(S, C, section_, option, category, default) ==
    get(S, C, section_, option, category, TRUE, default)

---------------------------------------------------------------------------
(* The caller: one call at a time, its arguments and outcome kept in res *)

Call(op, section_, option, category, evaluate, default, out) ==
    [op |-> op, section |-> section_, option |-> option,
     category |-> category, evaluate |-> evaluate, default |-> default,
     kind |-> out.kind, exc |-> out.exc, val |-> out.val]

Idle == Call("idle", <<>>, <<>>, None, FALSE, _EMPTY, Return(<<>>))

\* the index a call with this category argument leaves behind
After(category) ==
    IF category = None THEN _categories
    ELSE _parse_categories(_categories, sects)

NoInput == [val |-> <<>>, evaluate |-> FALSE]

Frozen == UNCHANGED <<sects, input, literal_lstrip, threads>>

Init ==
    /\ sects = <<>>
    /\ _categories = Unbuilt
    /\ res = Idle
    /\ input = NoInput
    /\ literal_lstrip = FALSE
    /\ threads = <<>>

\* ConfigParser.add_section / read: one more section of the document
AddSection ==
    /\ res.op = "idle"
    /\ threads = <<>>
    /\ Len(sects) < MaxSections
    /\ \E i \in DOMAIN ConfigFile :
          /\ ~HasSect(sects, ConfigFile[i].name)
          /\ sects' = Append(sects, ConfigFile[i])
    /\ UNCHANGED <<_categories, res, input, literal_lstrip, threads>>

\* the document is read before the first category-aware call
Load == _categories.none /\ AddSection

Categories ==
    /\ res.op = "idle"
    /\ LET C == _parse_categories(_categories, sects) IN
          /\ _categories' = C
          /\ res' = Call("categories", <<>>, <<>>, None, FALSE, _EMPTY,
                         categories(sects, C))
    /\ Frozen

Sections ==
    /\ res.op = "idle"
    /\ \E c \in CategoryArgs :
          /\ _categories' = After(c)
          /\ res' = Call("sections", <<>>, <<>>, c, FALSE, _EMPTY,
                         sections(sects, After(c), c))
    /\ Frozen

HasSection ==
    /\ res.op = "idle"
    /\ \E s \in SectionArgs, c \in CategoryArgs :
          /\ _categories' = After(c)
          /\ res' = Call("has_section", s, <<>>, c, FALSE, _EMPTY,
                         has_section(sects, After(c), s, c))
    /\ Frozen

Options ==
    /\ res.op = "idle"
    /\ \E s \in SectionArgs, c \in CategoryArgs :
          /\ _categories' = After(c)
          /\ res' = Call("options", s, <<>>, c, FALSE, _EMPTY,
                         options(sects, After(c), s, c))
    /\ Frozen

HasOption ==
    /\ res.op = "idle"
    /\ \E s \in SectionArgs, o \in OptionArgs, c \in CategoryArgs :
          /\ _categories' = After(c)
          /\ res' = Call("has_option", s, o, c, FALSE, _EMPTY,
                         has_option(sects, After(c), s, o, c))
    /\ Frozen

Items ==
    /\ res.op = "idle"
    /\ \E s \in SectionArgs, c \in CategoryArgs :
          /\ _categories' = After(c)
          /\ res' = Call("items", s, <<>>, c, FALSE, _EMPTY,
                         items(sects, After(c), s, c))
    /\ Frozen

Get ==
    /\ res.op = "idle"
    /\ \E s \in SectionArgs, o \in OptionArgs, c \in CategoryArgs,
          e \in BOOLEAN, d \in DefaultArgs :
          /\ _categories' = After(c)
          /\ res' = Call("get", s, o, c, e, d,
                         get(sects, After(c), s, o, c, e, d))
    /\ Frozen

GetList ==
    /\ res.op = "idle"
    /\ \E s \in SectionArgs, o \in OptionArgs, c \in CategoryArgs,
          e \in BOOLEAN, d \in DefaultArgs :
          /\ _categories' = After(c)
          /\ res' = Call("getlist", s, o, c, e, d,
                         getlist(sects, After(c), s, o, e, c, d))
    /\ Frozen

GetEval ==
    /\ res.op = "idle"
    /\ \E s \in SectionArgs, o \in OptionArgs, c \in CategoryArgs,
          d \in DefaultArgs :
          /\ _categories' = After(c)
          /\ res' = Call("geteval", s, o, c, TRUE, d,
                         geteval(sects, After(c), s, o, c, d))
    /\ Frozen

Section ==
    /\ res.op = "idle"
    /\ \E s \in SectionArgs, c \in CategoryArgs :
          /\ _categories' = After(c)
          /\ res' = Call("section", s, <<>>, c, FALSE, _EMPTY,
                         section(sects, After(c), s, c))
    /\ Frozen

\* the caller takes the outcome and goes on
Continue ==
    /\ res.op # "idle"
    /\ res' = Idle
    /\ UNCHANGED <<sects, _categories, input, literal_lstrip, threads>>

Next ==
    \/ Load
    \/ Categories
    \/ Sections
    \/ HasSection
    \/ Options
    \/ HasOption
    \/ Items
    \/ Get
    \/ GetList
    \/ GetEval
    \/ Section
    \/ Continue

Spec == Init /\ [][Next]_vars

---------------------------------------------------------------------------
(* The reference grouping of section names, stated on positions and sets   *)
(* rather than by the loop of _parse_categories                            *)

Norm(f) == strip(lower(f))

\* the (category, bare name) pair of a full section name, if it has one
PairOf(f) ==
    LET n == Norm(f)
        colons == {i \in 1..Len(n) : n[i] = ":"}
    IN  IF Cardinality(colons) = 1
        THEN LET p == CHOOSE i \in colons : TRUE IN
             [ok |-> TRUE, cat |-> strip(SubSeq(n, 1, p - 1)),
              name |-> strip(SubSeq(n, p + 1, Len(n)))]
        ELSE [ok |-> FALSE, cat |-> <<>>, name |-> <<>>]

RECURSIVE Pairs(_)
Pairs(S) ==
    IF S = <<>> THEN <<>> ELSE <<PairOf(Head(S).name)>> \o Pairs(Tail(S))

InCat(P, i, c) == P[i].ok /\ P[i].cat = c
IsPair(P, i, c, n) == P[i].ok /\ P[i].cat = c /\ P[i].name = n

RECURSIVE Upto(_)
Upto(n) == IF n = 0 THEN <<>> ELSE Append(Upto(n - 1), n)

RECURSIVE Project(_, _, _)
Project(P, idx, field) ==
    IF idx = <<>> THEN <<>>
    ELSE <<P[Head(idx)][field]>> \o Project(P, Tail(idx), field)

\* categories in order of first appearance
RefCategories(P) ==
    Project(P, SelectSeq(Upto(Len(P)), LAMBDA i :
                   /\ P[i].ok
                   /\ \A j \in 1..(i - 1) : ~InCat(P, j, P[i].cat)),
            "cat")

\* bare names of category c in order of first appearance
RefSections(P, c) ==
    Project(P, SelectSeq(Upto(Len(P)), LAMBDA i :
                   /\ InCat(P, i, c)
                   /\ \A j \in 1..(i - 1) : ~IsPair(P, j, c, P[i].name)),
            "name")

\* the sections a (section, category) argument pair addresses, the
\* arguments case-folded
Targets(S, section_, category) ==
    IF category = None
    THEN {i \in 1..Len(S) : S[i].name = section_}
    ELSE LET P == Pairs(S) IN
         {i \in 1..Len(S) : IsPair(P, i, lower(category), lower(section_))}

OptionAbsent(S, i, option) ==
    \A k \in 1..Len(S[i].opts) : S[i].opts[k].k # lower(option)

OptionValue(S, i, option) ==
    S[i].opts[CHOOSE k \in 1..Len(S[i].opts) : S[i].opts[k].k = lower(option)].v

SameOutcome(a, b) ==
    /\ a.kind = b.kind
    /\ a.exc = b.exc
    /\ a.kind = "return" => a.val = b.val

\* the outcome of operation op on these arguments
Outcome(op, S, C, s, o, c, e, d) ==
    CASE op = "sections"    -> sections(S, C, c)
      [] op = "has_section" -> has_section(S, C, s, c)
      [] op = "options"     -> options(S, C, s, c)
      [] op = "has_option"  -> has_option(S, C, s, o, c)
      [] op = "items"       -> items(S, C, s, c)
      [] op = "get"         -> get(S, C, s, o, c, e, d)
      [] op = "getlist"     -> getlist(S, C, s, o, e, c, d)
      [] op = "geteval"     -> geteval(S, C, s, o, c, d)
      [] op = "section"     -> section(S, C, s, c)

CategoryAware == {"sections", "has_section", "options", "has_option", "items",
                  "get", "getlist", "geteval", "section"}

---------------------------------------------------------------------------
(* Claims checked under Spec *)

\* C1: once built, the index is the reference grouping of the section
\* names: categories and, per category, bare names in order of first
\* appearance, exactly the pairs of the sections whose normalized name has
\* one colon, each stored value the full name of a section with that pair;
\* categories() and sections(c) return those listings.
C1_IndexIsGrouping ==
    LET P == Pairs(sects) IN
    /\ ~_categories.none =>
         /\ OD_keys(_categories.od) = RefCategories(P)
         /\ \A k \in 1..Len(_categories.od) :
              LET e == _categories.od[k] IN
              /\ OD_keys(e.v) = RefSections(P, e.k)
              /\ \A m \in 1..Len(e.v) :
                   \E i \in 1..Len(sects) :
                      /\ IsPair(P, i, e.k, e.v[m].k)
                      /\ sects[i].name = e.v[m].v
         /\ \A i \in 1..Len(sects) :
              ~P[i].ok =>
                 \A k \in 1..Len(_categories.od) :
                    \A m \in 1..Len(_categories.od[k].v) :
                       _categories.od[k].v[m].v # sects[i].name
    /\ res.op = "categories" =>
         res.kind = "return" /\ res.val = RefCategories(P)
    /\ (res.op = "sections" /\ res.category # None /\ res.kind = "return") =>
         res.val = RefSections(P, lower(res.category))

\* a category lists two bare names and the first of them was registered
\* again by the third section, next to a section outside every category
C1_Witness ==
    /\ ~_categories.none
    /\ res.op = "sections" /\ res.category # None /\ res.kind = "return"
    /\ Len(res.val) = 2
    /\ Len(sects) = 3
    /\ \E k \in 1..Len(_categories.od) :
          /\ Len(_categories.od[k].v) = 2
          /\ _categories.od[k].v[1].v = sects[3].name

\* some section with two colons is in the store when the index is built
C1_WitnessTwoColons ==
    /\ ~_categories.none
    /\ \E i \in 1..Len(sects) : count(Norm(sects[i].name), ":") = 2
    /\ Len(_categories.od) = 2

\* C2 (as claimed): a category-aware call gives the outcome of the same
\* call with the category and section arguments case-folded and trimmed.
C2_ArgumentsNormalized ==
    (res.op \in CategoryAware \ {"sections"} /\ res.category # None) =>
        SameOutcome(res,
            Outcome(res.op, sects, _categories, strip(lower(res.section)),
                    res.option, strip(lower(res.category)), res.evaluate,
                    res.default))

\* C3: get on an existing section with the option absent returns the
\* supplied default as given (None included, evaluate or not) and raises
\* NoOptionError without one; with the option present it returns the
\* option's value, evaluated if asked.
C3_GetDefault ==
    (res.op = "get" /\ Targets(sects, res.section, res.category) # {}) =>
        LET T == Targets(sects, res.section, res.category) IN
        /\ (\A i \in T : OptionAbsent(sects, i, res.option)) =>
              IF res.default # _EMPTY
              THEN res.kind = "return" /\ res.val = res.default
              ELSE res.kind = "raise" /\ res.exc = "NoOptionError"
        /\ (\A i \in T : ~OptionAbsent(sects, i, res.option)) =>
              /\ res.kind = "return"
              /\ \E i \in T :
                    res.val = IF res.evaluate
                              THEN _evaluate(OptionValue(sects, i, res.option))
                              ELSE StrV(OptionValue(sects, i, res.option))

\* get(evaluate=True, default="no") through a category, option absent
C3_Witness ==
    /\ res.op = "get" /\ res.category # None /\ res.evaluate
    /\ res.default = StrV(<<"n", "o">>)
    /\ Targets(sects, res.section, res.category) # {}
    /\ \A i \in Targets(sects, res.section, res.category) :
          OptionAbsent(sects, i, res.option)
    /\ res.kind = "return"

\* C4 (as claimed): when get's section does not exist or the category and
\* section do not resolve, get returns the default if one was supplied and
\* raises NoSectionError otherwise.
C4_GetNoSection ==
    (res.op = "get" /\ Targets(sects, res.section, res.category) = {}) =>
        IF res.default # _EMPTY
        THEN res.kind = "return" /\ res.val = res.default
        ELSE res.kind = "raise" /\ res.exc = "NoSectionError"

\* C5 (as claimed): getlist returns the default when get with the same
\* arguments would, raises what get would raise, and otherwise returns the
\* split of the raw value get returns.
C5_GetListLikeGet ==
    res.op = "getlist" =>
        LET g0 == get(sects, _categories, res.section, res.option,
                      res.category, FALSE, _EMPTY)
            g  == get(sects, _categories, res.section, res.option,
                      res.category, FALSE, res.default)
        IN  IF g.kind = "raise"
            THEN res.kind = "raise" /\ res.exc = g.exc
            ELSE IF g0.kind = "raise"
            THEN res.kind = "return" /\ res.val = res.default
            ELSE /\ res.kind = "return"
                 /\ res.val = split_value(g0.val.s, res.evaluate)

\* C6 (as claimed): when the category is missing, or the section is missing
\* within it, has_section returns false and every other category-aware
\* operation called without a default raises NoSectionError.
C6_LookupFailureIsNoSection ==
    (/\ res.op \in CategoryAware
     /\ res.category # None
     /\ IF res.op = "sections"
        THEN \A i \in 1..Len(sects) :
                 ~InCat(Pairs(sects), i, lower(res.category))
        ELSE Targets(sects, res.section, res.category) = {}
     /\ res.default = _EMPTY) =>
        IF res.op = "has_section"
        THEN res.kind = "return" /\ res.val = FALSE
        ELSE res.kind = "raise" /\ res.exc = "NoSectionError"

---------------------------------------------------------------------------
(* The store changing under a built index *)

\* ConfigParser.remove_section
RemoveSection ==
    /\ res.op = "idle"
    /\ threads = <<>>
    /\ \E i \in 1..Len(sects) :
          sects' = SubSeq(sects, 1, i - 1) \o SubSeq(sects, i + 1, Len(sects))
    /\ UNCHANGED <<_categories, res, input, literal_lstrip, threads>>

NextMutate ==
    \/ AddSection
    \/ RemoveSection
    \/ Categories
    \/ Sections
    \/ HasSection
    \/ Continue

SpecMutate == Init /\ [][NextMutate]_vars

\* C7: the index goes from unbuilt to built on the first category-aware
\* call and is never changed again, whatever is added to or removed from
\* the store; categories() answers from that same index every time.
C7_BuiltOnce ==
    [][ /\ ~_categories.none => _categories' = _categories
        /\ (/\ res.op = "idle" /\ res'.op # "idle"
            /\ (res'.op = "categories" \/ res'.category # None))
              => ~_categories'.none
        /\ (_categories.none /\ ~_categories'.none)
              => (res'.op = "categories" \/ res'.category # None)
        /\ (res'.op = "categories" /\ ~_categories.none)
              => res'.val = OD_keys(_categories.od) ]_vars

\* categories() answered from an index that no longer matches the store
C7_Witness ==
    /\ ~_categories.none
    /\ res.op = "categories"
    /\ RefCategories(Pairs(sects)) # OD_keys(_categories.od)
    /\ res.val = OD_keys(_categories.od)

---------------------------------------------------------------------------
(* The value evaluator on its own *)

Strings(A, n) == UNION {[1..k -> A] : k \in 0..n}

EvalAlphabet == {"n", "o", "N", "1", "'", " "}

EvalSamples ==
    { <<"y", "e", "s">>, <<"Y", "e", "s">>, <<"t", "r", "u", "e">>,
      <<"T", "r", "u", "e">>, <<"T", "R", "U", "E">>,
      <<"f", "a", "l", "s", "e">>, <<"F", "a", "l", "s", "e">>,
      <<"O", "f", "f">>, <<"N", "o", "n", "e">>, <<"n", "o", "n", "e">>,
      <<"\"", "o", "n", "\"">>, <<"4", "2">> }

InitEval ==
    /\ sects = <<>>
    /\ _categories = Unbuilt
    /\ res = Idle
    /\ input \in [val : Strings(EvalAlphabet, MaxEvalLen) \cup EvalSamples,
                  evaluate : {TRUE}]
    /\ literal_lstrip \in BOOLEAN
    /\ threads = <<>>

Evaluate ==
    /\ res.op = "idle"
    /\ res' = Call("_evaluate", <<>>, <<>>, None, TRUE, _EMPTY,
                   Return(_evaluate(input.val)))
    /\ UNCHANGED <<sects, _categories, input, literal_lstrip, threads>>

NextEval == Evaluate

SpecEval == InitEval /\ [][NextEval]_vars

EqualsIgnoreCase(s, w) ==
    Len(s) = Len(w) /\ \A i \in 1..Len(s) : LowerChar(s[i]) = LowerChar(w[i])

\* C8: _evaluate always returns: the literal value when the string is a
\* literal, else False for no/false/off and True for yes/true/on in any
\* capitalization, else the string itself.
C8_Evaluate ==
    res.op = "_evaluate" =>
        LET lit == literal_eval(input.val) IN
        /\ res.kind = "return"
        /\ IF lit.kind = "return" THEN res.val = lit.val
           ELSE IF \E w \in FalseWords : EqualsIgnoreCase(input.val, w)
                THEN res.val = BoolV(FALSE)
           ELSE IF \E w \in TrueWords : EqualsIgnoreCase(input.val, w)
                THEN res.val = BoolV(TRUE)
           ELSE res.val = StrV(input.val)

\* "No" is no literal and evaluates to False
C8_Witness ==
    /\ res.op = "_evaluate"
    /\ input.val = <<"N", "o">>
    /\ res.val = BoolV(FALSE)

---------------------------------------------------------------------------
(* The list splitter on its own *)

SplitAlphabet == {"1", "n", "o", ",", " ", "\n"}

InitSplit ==
    /\ sects = <<>>
    /\ _categories = Unbuilt
    /\ res = Idle
    /\ input \in [val : Strings(SplitAlphabet, MaxSplitLen),
                  evaluate : BOOLEAN]
    /\ literal_lstrip = FALSE
    /\ threads = <<>>

Split ==
    /\ res.op = "idle"
    /\ res' = Call("split", <<>>, <<>>, None, input.evaluate, _EMPTY,
                   Return(split_value(input.val, input.evaluate)))
    /\ UNCHANGED <<sects, _categories, input, literal_lstrip, threads>>

NextSplit == Split

SpecSplit == InitSplit /\ [][NextSplit]_vars

\* the k-th smallest element of a set of integers
Kth(B, k) == CHOOSE b \in B : Cardinality({x \in B : x < b}) = k - 1

\* the maximal segments between delimiters, by position
RefSegments(s) ==
    LET B == {i \in 1..Len(s) : s[i] \in SPLITTER} \cup {0, Len(s) + 1} IN
    [k \in 1..(Cardinality(B) - 1) |->
        SubSeq(s, Kth(B, k) + 1, Kth(B, k + 1) - 1)]

\* a segment without its surrounding whitespace, by position
RefTrim(g) ==
    LET solid == {i \in 1..Len(g) : g[i] \notin Whitespace} IN
    IF solid = {} THEN <<>>
    ELSE SubSeq(g, Kth(solid, 1), Kth(solid, Cardinality(solid)))

RefItems(s) ==
    LET segs == RefSegments(s) IN
    SelectSeq([k \in 1..Len(segs) |-> RefTrim(segs[k])], LAMBDA g : g # <<>>)

\* C9: the list is the trimmed, non-empty maximal segments between commas
\* and newlines, in order, duplicates kept; no item is empty, holds a
\* delimiter or starts or ends with whitespace; with evaluate the list is
\* the element-wise _evaluate of the same items.
C9_Split ==
    res.op = "split" =>
        LET ref == RefItems(input.val) IN
        /\ res.kind = "return"
        /\ res.val.t = "list"
        /\ Len(res.val.l) = Len(ref)
        /\ \A i \in 1..Len(ref) :
              res.val.l[i] = IF input.evaluate THEN _evaluate(ref[i])
                             ELSE StrV(ref[i])
        /\ ~input.evaluate =>
              \A i \in 1..Len(res.val.l) :
                 LET item == res.val.l[i].s IN
                 /\ item # <<>>
                 /\ \A j \in 1..Len(item) : item[j] \notin SPLITTER
                 /\ item[1] \notin Whitespace
                 /\ item[Len(item)] \notin Whitespace

\* "1,\nno": the empty segment between the comma and the newline is
\* dropped and both items are evaluated
C9_Witness ==
    /\ res.op = "split"
    /\ input.evaluate
    /\ input.val = <<"1", ",", "\n", "n", "o">>
    /\ res.val.l = <<IntV(1), BoolV(FALSE)>>

---------------------------------------------------------------------------
(* Two callers sharing one parser.  Each calls get(section, "d",           *)
(* category="c"); the steps of _parse_categories interleave.  One loop     *)
(* iteration is one step.                                                  *)

RaceSections == {<<"f">>, <<"b">>}
RaceCategory == <<"c">>
RaceOption   == <<"d">>

IdleThread == [pc |-> "idle", todo |-> <<>>, section |-> <<>>,
               ans |-> Return(<<>>)]

\* the loaded parser is handed to two threads
Share ==
    /\ threads = <<>>
    /\ threads' = <<IdleThread, IdleThread>>
    /\ UNCHANGED <<sects, _categories, res, input, literal_lstrip>>

\* get is entered (line 167)
T_Call ==
    \E t \in DOMAIN threads :
       /\ threads[t].pc = "idle"
       /\ \E s \in RaceSections :
             threads' = [threads EXCEPT ![t].pc = "check", ![t].section = s]
       /\ UNCHANGED <<sects, _categories, res, input, literal_lstrip>>

\* _parse_categories, lines 108-109
T_Check ==
    \E t \in DOMAIN threads :
       /\ threads[t].pc = "check"
       /\ threads' = [threads EXCEPT ![t].pc =
                         IF _categories.none THEN "assign" ELSE "lookup"]
       /\ UNCHANGED <<sects, _categories, res, input, literal_lstrip>>

\* _parse_categories, lines 110-111
T_Assign ==
    \E t \in DOMAIN threads :
       /\ threads[t].pc = "assign"
       /\ _categories' = Built(<<>>)
       /\ threads' = [threads EXCEPT ![t].pc = "loop",
                                     ![t].todo = ConfigParser_sections(sects)]
       /\ UNCHANGED <<sects, res, input, literal_lstrip>>

\* _parse_categories, lines 111-117: one iteration, or the end of the loop
T_Iter ==
    \E t \in DOMAIN threads :
       /\ threads[t].pc = "loop"
       /\ IF threads[t].todo = <<>>
          THEN /\ threads' = [threads EXCEPT ![t].pc = "lookup"]
               /\ UNCHANGED _categories
          ELSE /\ _categories' =
                     Built(Register(_categories.od, Head(threads[t].todo)))
               /\ threads' =
                     [threads EXCEPT ![t].todo = Tail(threads[t].todo)]
       /\ UNCHANGED <<sects, res, input, literal_lstrip>>

\* get, lines 169-186
T_Lookup ==
    \E t \in DOMAIN threads :
       /\ threads[t].pc = "lookup"
       /\ threads' = [threads EXCEPT
                         ![t].pc = "done",
                         ![t].ans = get(sects, _categories,
                                        threads[t].section, RaceOption,
                                        RaceCategory, FALSE, _EMPTY)]
       /\ UNCHANGED <<sects, _categories, res, input, literal_lstrip>>

NextRace ==
    \/ AddSection
    \/ Share
    \/ T_Call
    \/ T_Check
    \/ T_Assign
    \/ T_Iter
    \/ T_Lookup

SpecRace == Init /\ [][NextRace]_vars

\* C10 (as claimed): every caller's lookup is answered as in a sequential
\* run, and no caller looks up in an index that is not complete.
C10_RaceHarmless ==
    \A t \in DOMAIN threads :
        LET full == Built(RegisterAll(<<>>, ConfigParser_sections(sects))) IN
        /\ threads[t].pc = "lookup" => _categories = full
        /\ threads[t].pc = "done" =>
              SameOutcome(threads[t].ans,
                          get(sects, full, threads[t].section, RaceOption,
                              RaceCategory, FALSE, _EMPTY))

===========================================================================
